---- MODULE Spec2Model ----
(***************************************************************************)
(* Conversation engine of the WhatsApp jewellery store bot                 *)
(* (state-manager.ts, latest variant), its gold-rate cache                 *)
(* (gold-api.service.ts), the message dispatcher (whatsapp.service.ts)     *)
(* and the webhook route (routes/webhook.ts).                              *)
(*                                                                         *)
(* Node runs one continuation at a time: code between two awaits is one    *)
(* atomic step.  Every action below is one such continuation: the arrival  *)
(* of a POST, the completion (or failure) of an axios call.                *)
(***************************************************************************)
EXTENDS Integers, Sequences, FiniteSets, TLC

VARIABLES
  orderState,     \* the Map<string, UserState>: a function on the keys present
  goldRate,       \* module-level cached rate, Null or a price
  now,            \* Date.now(), in ticks of TickMs
  req,            \* the webhook POSTs: [Requests -> request record]
  fetchedAt,      \* history: value of Date.now() when goldRate was last assigned
  requestedAt     \* history: value of Date.now() when GoldAPI was last called

vars == <<orderState, goldRate, now, req, fetchedAt, requestedAt>>

(***************************************************************************)
(* Bounds of the model                                                     *)
(***************************************************************************)
MaxTicks == 2                       \* the clock runs from 0 to MaxTicks ticks
TickMs == 40 * 60 * 1000            \* one tick is 40 minutes: 1 tick < TTL < 2 ticks
Users == {"u1", "u2"}               \* wa_id values
Requests == {1, 2}                  \* POSTs that can be in flight together
Prices == {124400}                  \* GoldAPI price (INR per ounce): 4000.00 per gram
OrderIds == {"K3X9ZQ1A"}            \* results of Math.random().toString(36)...

Null == 0 - 1                       \* JavaScript null / undefined, where a number is expected
Never == 0 - 1                      \* history variables: no such moment yet

(***************************************************************************)
(* interfaces/user-state.ts                                                *)
(***************************************************************************)
STATES ==
  [ IDLE            |-> "IDLE",
    WELCOME_SENT    |-> "WELCOME_SENT",
    SELECT_PRODUCT  |-> "SELECT_PRODUCT",
    ENTER_QUANTITY  |-> "ENTER_QUANTITY",
    CONFIRM_ORDER   |-> "CONFIRM_ORDER",
    MAIN_MENU       |-> "MAIN_MENU",
    CHANGE_LANGUAGE |-> "CHANGE_LANGUAGE" ]

\* STATES.<key> as JavaScript evaluates it: a missing member reads as undefined.
Member(key) == IF key \in DOMAIN STATES THEN STATES[key] ELSE "undefined"

IDLE            == Member("IDLE")
WELCOME_SENT    == Member("WELCOME_SENT")
MAIN_MENU       == Member("MAIN_MENU")
CREATE_ORDER    == Member("CREATE_ORDER")
SELECT_PRODUCT  == Member("SELECT_PRODUCT")
ENTER_QUANTITY  == Member("ENTER_QUANTITY")
CONFIRM_ORDER   == Member("CONFIRM_ORDER")
CHANGE_LANGUAGE == Member("CHANGE_LANGUAGE")

\* A UserState object is a record whose optional fields (product, quantity) are
\* in its domain only when the object has them.
HasProduct(s)  == "product" \in DOMAIN s
HasQuantity(s) == "quantity" \in DOMAIN s

\* { step, language }
Session(step, language) == [step |-> step, language |-> language]

\* { step, product, language }
SessionWithProduct(step, product, language) ==
  [step |-> step, product |-> product, language |-> language]

\* { ...userState, quantity, step }
SpreadWithQuantity(userState, quantity, step) ==
  [f \in (DOMAIN userState) \cup {"quantity", "step"} |->
     CASE f = "quantity" -> quantity
       [] f = "step"     -> step
       [] OTHER          -> userState[f]]

\* Variant: the language of the session is not read ('english' always).
LanguageOfDefault(userState) == "english"

\* userState.language || 'english'
LanguageOf(userState) ==
  IF "language" \in DOMAIN userState THEN userState.language ELSE "english"

\* Variant: a user without a session starts in the main menu.
DefaultUserStateMainMenu == Session(MAIN_MENU, "english")

\* orderState.get(from) || { step: STATES.IDLE, language: 'english' }
DefaultUserState == Session(IDLE, "english")
GetUserState(store, from) ==
  IF from \in DOMAIN store THEN store[from] ELSE DefaultUserState

\* Variant: the write merges the new object into the one stored
\* (orderState.set(from, { ...orderState.get(from), ...value })).
MapSetMerge(store, from, value) ==
  [k \in (DOMAIN store) \cup {from} |->
     IF k # from THEN store[k]
     ELSE IF from \in DOMAIN store
       THEN [f \in (DOMAIN store[from]) \cup (DOMAIN value) |->
               IF f \in DOMAIN value THEN value[f] ELSE store[from][f]]
       ELSE value]

\* Variant: the map is keyed by the business number, which all users share
\* (orderState.set(phoneNumberId, value)): a write is every user's session.
MapSetShared(store, from, value) ==
  [k \in (DOMAIN store) \cup {from} |-> value]

\* orderState.set(from, value)
MapSet(store, from, value) ==
  [k \in (DOMAIN store) \cup {from} |-> IF k = from THEN value ELSE store[k]]

(***************************************************************************)
(* Texts are sequences of characters.                                      *)
(***************************************************************************)
Digits == <<"0", "1", "2", "3", "4", "5", "6", "7", "8", "9">>
Upper  == <<"H", "I", "O", "R", "D", "E", "M", "N", "U">>
Lower  == <<"h", "i", "o", "r", "d", "e", "m", "n", "u">>

LowerChar(c) ==
  IF \E k \in DOMAIN Upper : Upper[k] = c
    THEN Lower[CHOOSE k \in DOMAIN Upper : Upper[k] = c]
    ELSE c

\* text.toLowerCase()
ToLowerCase(text) == [k \in DOMAIN text |-> LowerChar(text[k])]

IsDigit(c) == \E k \in DOMAIN Digits : Digits[k] = c
DigitValue(c) == (CHOOSE k \in DOMAIN Digits : Digits[k] = c) - 1

\* Variant: the pattern is not anchored at the end (/^\d+/.test(text)).
IsNumericPrefix(text) == Len(text) >= 1 /\ IsDigit(text[1])

\* /^\d+$/.test(text)
IsNumeric(text) == Len(text) >= 1 /\ \A k \in DOMAIN text : IsDigit(text[k])

\* parseInt(text) of a text that starts with a digit: the value of its
\* leading digits
RECURSIVE ParseDigits(_, _)
ParseDigits(text, value) ==
  IF text = << >> \/ ~IsDigit(Head(text)) THEN value
  ELSE ParseDigits(Tail(text), 10 * value + DigitValue(Head(text)))

ParseInt(text) == ParseDigits(text, 0)

HI    == <<"h", "i">>
ORDER == <<"o", "r", "d", "e", "r">>
MENU  == <<"m", "e", "n", "u">>

(***************************************************************************)
(* utils/menu-options.ts: the menus, by their row ids                      *)
(***************************************************************************)
Languages == {"english", "kannada", "tamil", "telugu"}

\* language.toLowerCase(), on the names used here
LowerCaseName(language) ==
  CASE language = "Tamil"   -> "tamil"
    [] language = "ENGLISH" -> "english"
    [] OTHER                -> language

\* The names in lower case that every object literal inherits from
\* Object.prototype: translations[name] is then a function or an object,
\* truthy, with none of the fields of a translation.
InheritedKeys == {"constructor", "__proto__"}

\* translations[language.toLowerCase()] || translations.english: the
\* translation whose texts are used, "undefined" when the value looked up is
\* an inherited one
TranslationOf(language) ==
  IF LowerCaseName(language) \in Languages THEN LowerCaseName(language)
  ELSE IF LowerCaseName(language) \in InheritedKeys THEN "undefined"
  ELSE "english"

\* reading t.points.title of a t without points throws a TypeError
getMainMenu(language) ==
  IF TranslationOf(language) = "undefined"
    THEN [ type |-> "TypeError" ]
    ELSE [ type |-> "interactive", kind |-> "list", menu |-> "main",
           language |-> TranslationOf(language),
           rows |-> <<"view_points", "view_orders", "contact_support",
                      "change_language", "create_order">> ]

getLanguageMenu ==
  [ type |-> "interactive", kind |-> "list", menu |-> "language",
    language |-> "english",
    rows |-> <<"lang_english", "lang_kannada", "lang_tamil", "lang_telugu">> ]

getCreateOrderMenu(language) ==
  [ type |-> "interactive", kind |-> "list", menu |-> "create_order",
    language |-> TranslationOf(language),
    rows |-> <<"browse_products", "back_to_main">> ]

\* the list built by sendProductList
productList ==
  [ type |-> "interactive", kind |-> "list", menu |-> "products",
    language |-> "english",
    rows |-> <<"necklace", "bangles", "earings">> ]

(***************************************************************************)
(* state-manager.ts: weights and the cost computation.  Money is counted   *)
(* in hundredths (what toFixed(2) keeps).                                  *)
(***************************************************************************)
\* productWeights[product], Null when the table has no such key
productWeights(product) ==
  CASE product = "necklace" -> 120
    [] product = "bangles"  -> 50
    [] product = "earings"  -> 20
    [] OTHER                -> Null

\* a JavaScript number used as a condition
Truthy(n) == n # Null /\ n # 0

\* (num / den).toFixed(2), in hundredths, rounding half up
ToFixed2(num, den) == (200 * num + den) \div (2 * den)

\* rate ? (rate / 31.1).toFixed(2) : rate
RatePerGram(rate) == IF Truthy(rate) THEN ToFixed2(10 * rate, 311) ELSE rate

\* ratePerGram ? (quantity * weight * Number(ratePerGram)).toFixed(2) : rate
\* with weight = productWeights[product] || 0.01.  ratePerGram is a string
\* when it is not null or 0, and every such string is truthy.
TotalCost(quantity, product, rate) ==
  LET ratePerGram == RatePerGram(rate)
  IN  IF Truthy(rate)
        THEN IF Truthy(productWeights(product))
               THEN quantity * productWeights(product) * ratePerGram
               ELSE (2 * quantity * ratePerGram + 100) \div 200
        ELSE rate

(***************************************************************************)
(* Outbound messages (the content handed to sendWhatsAppMessage)           *)
(***************************************************************************)
Text(body) == [type |-> "text", body |-> body]

\* the welcome texts: with the rate per gram, or "Unable to fetch gold rate"
RateText(body, rate) ==
  [ type |-> "text",
    body |-> IF Truthy(rate) THEN body ELSE "unable_to_fetch",
    ratePerGram |-> RatePerGram(rate) ]

\* What a template literal shows for a value: a number (in hundredths), or a
\* literal text.
Number(v)  == [kind |-> "number", hundredths |-> v]
Literal(t) == [kind |-> "literal", text |-> t]

\* `${v}`: null shows as the text null
TemplateText(v) == IF v = Null THEN Literal("null") ELSE Number(v)

\* `${v || 'N/A'}`
OrNA(v) == IF Truthy(v) THEN Number(v) ELSE Literal("N/A")

\* the Order Confirmation button message; its body shows
\* "Gold Rate: INR ${ratePerGram || 'N/A'}/gram" and "Total Cost: INR ${totalCost}"
Confirmation(product, quantity, rate) ==
  [ type |-> "interactive", kind |-> "button", menu |-> "confirmation",
    product |-> product, quantity |-> quantity,
    ratePerGram |-> RatePerGram(rate),
    totalCost |-> TotalCost(quantity, product, rate),
    rateShown |-> OrNA(RatePerGram(rate)),
    totalShown |-> TemplateText(TotalCost(quantity, product, rate)),
    buttons |-> <<"confirm", "cancel">> ]

\* What a handler does, in order: messages it awaits the dispatch of, and
\* writes to orderState.
Send(msg)  == [op |-> "send", msg |-> msg]
Set(value) == [op |-> "set", value |-> value]

\* Variant: the main menu is sent in the default language of the parameter
\* (language: Language = 'english'), whatever the session's.
sendMainMenuDefault(language) == Send(getMainMenu("english"))

sendMainMenu(language)        == Send(getMainMenu(language))
sendCreateOrderMenu(language) == Send(getCreateOrderMenu(language))
sendProductList               == Send(productList)

\* userState.product of an object that may lack it
ProductOf(userState) ==
  IF HasProduct(userState) THEN userState.product ELSE "undefined"

(***************************************************************************)
(* handleTextMessage: the branches that await fetchGoldRate first          *)
(***************************************************************************)
AwaitsGoldRate(text, userState) ==
  LET normalizedText == ToLowerCase(text)
      step == userState.step
  IN  \/ step \in {IDLE, WELCOME_SENT, CREATE_ORDER, MAIN_MENU} /\ normalizedText = HI
      \/ step = ENTER_QUANTITY /\ IsNumeric(normalizedText)

(***************************************************************************)
(* handleTextMessage, after the rate (if it is needed) is known            *)
(***************************************************************************)
handleTextMessage(text, userState, rate) ==
  LET normalizedText == ToLowerCase(text)
      language == LanguageOf(userState)
      step == userState.step
  IN
  CASE step = IDLE ->
         IF normalizedText = HI THEN
           << Send(RateText("welcome", rate)),
              Set(Session(WELCOME_SENT, language)) >>
         ELSE IF normalizedText = ORDER THEN
           << sendCreateOrderMenu(language),
              Set(Session(CREATE_ORDER, language)) >>
         ELSE IF normalizedText = MENU THEN
           << sendMainMenu(language),
              Set(Session(MAIN_MENU, language)) >>
         ELSE
           << Send(Text("help")) >>
    [] step = WELCOME_SENT ->
         IF normalizedText = ORDER THEN
           << sendCreateOrderMenu(language),
              Set(Session(CREATE_ORDER, language)) >>
         ELSE IF normalizedText = MENU THEN
           << sendMainMenu(language),
              Set(Session(MAIN_MENU, language)) >>
         ELSE IF normalizedText = HI THEN
           << Send(RateText("welcome_back", rate)) >>
         ELSE
           << Send(Text("ready_to_shop")) >>
    [] step = CREATE_ORDER ->
         IF normalizedText = ORDER THEN
           << sendCreateOrderMenu(language) >>
         ELSE IF normalizedText = MENU THEN
           << sendMainMenu(language),
              Set(Session(MAIN_MENU, language)) >>
         ELSE IF normalizedText = HI THEN
           << Send(RateText("welcome_back", rate)),
              Set(Session(WELCOME_SENT, language)) >>
         ELSE
           << sendCreateOrderMenu(language),
              Send(Text("select_from_create_order_menu")) >>
    [] step = ENTER_QUANTITY ->
         IF IsNumeric(normalizedText) THEN
           << Set(SpreadWithQuantity(userState, ParseInt(normalizedText), CONFIRM_ORDER)),
              Send(Confirmation(ProductOf(userState), ParseInt(normalizedText), rate)) >>
         ELSE
           << Send(Text("enter_valid_number")) >>
    [] step \in {SELECT_PRODUCT, CONFIRM_ORDER} ->
         << Send(Text(IF step = SELECT_PRODUCT THEN "select_a_product"
                                               ELSE "use_confirm_or_cancel")) >>
    [] step = MAIN_MENU ->
         IF normalizedText = ORDER THEN
           << sendCreateOrderMenu(language),
              Set(Session(CREATE_ORDER, language)) >>
         ELSE IF normalizedText = MENU THEN
           << sendMainMenu(language) >>
         ELSE IF normalizedText = HI THEN
           << Send(RateText("welcome_back", rate)),
              Set(Session(WELCOME_SENT, language)) >>
         ELSE
           << sendMainMenu(language),
              Send(Text("select_from_menu")) >>
    [] step = CHANGE_LANGUAGE ->
         << Send(Text("select_a_language")) >>
    [] OTHER -> << >>

(***************************************************************************)
(* handleListReply                                                         *)
(***************************************************************************)
\* Variant: the default case does not return, so an id that is no language
\* id selects the initial value of newLanguage ('english').
NewLanguageOrEnglish(id) ==
  CASE id = "lang_kannada" -> "kannada"
    [] id = "lang_tamil"   -> "tamil"
    [] id = "lang_telugu"  -> "telugu"
    [] OTHER               -> "english"

\* the switch on id in the CHANGE_LANGUAGE branch; "none" for the default case
NewLanguage(id) ==
  CASE id = "lang_english" -> "english"
    [] id = "lang_kannada" -> "kannada"
    [] id = "lang_tamil"   -> "tamil"
    [] id = "lang_telugu"  -> "telugu"
    [] OTHER               -> "none"

handleListReply(id, userState) ==
  LET language == LanguageOf(userState)
      step == userState.step
  IN
  IF step = MAIN_MENU THEN
    CASE id = "view_points" ->
           << Send(Text("loyalty_points")), sendMainMenu(language),
              Set(Session(MAIN_MENU, language)) >>
      [] id = "view_orders" ->
           << Send(Text("no_recent_orders")), sendMainMenu(language),
              Set(Session(MAIN_MENU, language)) >>
      [] id = "contact_support" ->
           << Send(Text("contact_us")), sendMainMenu(language),
              Set(Session(MAIN_MENU, language)) >>
      [] id = "change_language" ->
           << Send(getLanguageMenu),
              Set(Session(CHANGE_LANGUAGE, language)) >>
      [] id = "create_order" ->
           << sendCreateOrderMenu(language),
              Set(Session(CREATE_ORDER, language)) >>
      [] OTHER ->
           << sendMainMenu(language), Send(Text("select_valid_option")) >>
  ELSE IF step = CREATE_ORDER THEN
    CASE id = "browse_products" ->
           << sendProductList, Set(Session(SELECT_PRODUCT, language)) >>
      [] id = "back_to_main" ->
           << sendMainMenu(language), Set(Session(MAIN_MENU, language)) >>
      [] OTHER ->
           << sendCreateOrderMenu(language),
              Send(Text("select_valid_create_order_option")) >>
  ELSE IF step = SELECT_PRODUCT THEN
    << Set(SessionWithProduct(ENTER_QUANTITY, id, language)),
       Send([type |-> "text", body |-> "enter_quantity", product |-> id]) >>
  ELSE IF step = CHANGE_LANGUAGE THEN
    IF NewLanguage(id) = "none" THEN
      << Send(Text("invalid_language")), Send(getLanguageMenu) >>
    ELSE
      << Send([type |-> "text", body |-> "language_changed",
               language |-> NewLanguage(id)]),
         sendMainMenu(NewLanguage(id)),
         Set(Session(MAIN_MENU, NewLanguage(id))) >>
  ELSE << >>

(***************************************************************************)
(* handleButtonReply                                                       *)
(***************************************************************************)
\* Variant: the session written on confirm and cancel is the old one with the
\* step replaced ({ ...userState, step: STATES.MAIN_MENU }).
handleButtonReplySpread(replyId, userState, orderId) ==
  LET language == LanguageOf(userState)
      kept == [f \in DOMAIN userState |->
                 IF f = "step" THEN MAIN_MENU ELSE userState[f]]
  IN
  IF userState.step = CONFIRM_ORDER THEN
    IF replyId = "confirm" THEN
      << Send([type |-> "text", body |-> "order_confirmed", orderId |-> orderId]),
         sendMainMenu(language),
         Set(kept) >>
    ELSE IF replyId = "cancel" THEN
      << Send(Text("order_cancelled")),
         sendMainMenu(language),
         Set(kept) >>
    ELSE << >>
  ELSE << >>

\* Variant: confirm and cancel send their messages and the session is not
\* written (no orderState.set after the sends).
handleButtonReplyNoWrite(replyId, userState, orderId) ==
  LET language == LanguageOf(userState)
  IN
  IF userState.step = CONFIRM_ORDER THEN
    IF replyId = "confirm" THEN
      << Send([type |-> "text", body |-> "order_confirmed", orderId |-> orderId]),
         sendMainMenu(language) >>
    ELSE IF replyId = "cancel" THEN
      << Send(Text("order_cancelled")),
         sendMainMenu(language) >>
    ELSE << >>
  ELSE << >>

\* Variant: confirm and cancel reset the session to IDLE.
handleButtonReplyToIdle(replyId, userState, orderId) ==
  LET language == LanguageOf(userState)
  IN
  IF userState.step = CONFIRM_ORDER THEN
    IF replyId = "confirm" THEN
      << Send([type |-> "text", body |-> "order_confirmed", orderId |-> orderId]),
         sendMainMenu(language),
         Set(Session(IDLE, language)) >>
    ELSE IF replyId = "cancel" THEN
      << Send(Text("order_cancelled")),
         sendMainMenu(language),
         Set(Session(IDLE, language)) >>
    ELSE << >>
  ELSE << >>

handleButtonReply(replyId, userState, orderId) ==
  LET language == LanguageOf(userState)
  IN
  IF userState.step = CONFIRM_ORDER THEN
    IF replyId = "confirm" THEN
      << Send([type |-> "text", body |-> "order_confirmed", orderId |-> orderId]),
         sendMainMenu(language),
         Set(Session(MAIN_MENU, language)) >>
    ELSE IF replyId = "cancel" THEN
      << Send(Text("order_cancelled")),
         sendMainMenu(language),
         Set(Session(MAIN_MENU, language)) >>
    ELSE << >>
  ELSE << >>

(***************************************************************************)
(* services/gold-api.service.ts: fetchGoldRate                             *)
(***************************************************************************)
CACHE_DURATION == 60 * 60 * 1000

\* let goldRateTimestamp = Date.now(): the timestamp is a local of the call,
\* set from the clock when the call starts.
GoldRateTimestamp(t) == t

\* Variant: the value held is never taken as valid, every call sends a
\* request.
CacheNeverValid(rate, t) == FALSE

\* goldRate !== null && Date.now() < goldRateTimestamp + CACHE_DURATION
CacheValid(rate, t) ==
  rate # Null /\ t * TickMs < GoldRateTimestamp(t) * TickMs + CACHE_DURATION

(***************************************************************************)
(* routes/webhook.ts and processWebhookMessage: one POST                   *)
(*                                                                         *)
(* A body is [object, changes]: the changes of all entries, in the order   *)
(* of the two nested loops.  A change is                                   *)
(*   [field, phone_number_id, wa_id, messages]                             *)
(* with "" for a missing id.  A message is [type |-> "text", body],        *)
(* [type |-> "interactive", list_reply] or                                 *)
(* [type |-> "interactive", button_reply], or any other type.              *)
(*                                                                         *)
(* A request record: pc is idle, fetch (awaiting GoldAPI), send (awaiting  *)
(* the Cloud API; the message is the head of ops) or done (responded with  *)
(* status); c and m index the change and the message being handled;        *)
(* userState is the object read at the start of processWebhookMessage;     *)
(* log records, for each message handed to a handler, what the handler     *)
(* did: the messages whose dispatch succeeded (out), the values it wrote   *)
(* to orderState (wrote), whether it returned (finished) or a dispatch     *)
(* failed in it (threw), and of its call of fetchGoldRate: how it was      *)
(* served (fetched: no call, cache, pending, ok, failed), what it returned *)
(* (rate), the value goldRate held when the call started (cached) and when *)
(* the request failed (stale), and the ticks since the value held when the *)
(* call started was fetched (age).  engine records the changes (by their    *)
(* index) that processWebhookMessage was called for.  A change that        *)
(* carries no messages (a status notification) has no messages field.      *)
(***************************************************************************)
NoRequest ==
  [ pc |-> "idle", status |-> 0, changes |-> << >>, c |-> 0, m |-> 0,
    userState |-> DefaultUserState, ops |-> << >>, log |-> << >>, engine |-> << >> ]

TextMsg(body) == [type |-> "text", body |-> body]
ListMsg(id)   == [type |-> "interactive", list_reply |-> id]
ButtonMsg(id) == [type |-> "interactive", button_reply |-> id]

IsText(msg)   == msg.type = "text" /\ "body" \in DOMAIN msg /\ msg.body # << >>
IsList(msg)   == msg.type = "interactive" /\ "list_reply" \in DOMAIN msg
IsButton(msg) == msg.type = "interactive" /\ "button_reply" \in DOMAIN msg

Change(from, messages) ==
  [ field |-> "messages", phone_number_id |-> "pn1", wa_id |-> from,
    messages |-> messages ]

\* a change of another field, or one without messages
ChangeOf(field, phoneNumberId, from) ==
  [ field |-> field, phone_number_id |-> phoneNumberId, wa_id |-> from ]

\* change.value?.messages (an empty array is truthy)
HasMessages(change) == "messages" \in DOMAIN change

\* Variant: the request is refused only when both ids are missing.
MissingBothIds(change) == change.phone_number_id = "" /\ change.wa_id = ""

\* !phoneNumberId || !from
MissingIds(change) == change.phone_number_id = "" \/ change.wa_id = ""

CurrentChange(rq)  == rq.changes[rq.c]
CurrentMessage(rq) == CurrentChange(rq).messages[rq.m]
From(rq)           == CurrentChange(rq).wa_id

\* the entry of the log for the message being handled
LogEntry(rq) ==
  [ from |-> From(rq), message |-> CurrentMessage(rq), userState |-> rq.userState,
    out |-> << >>, wrote |-> << >>, rate |-> Null, fetched |-> "no",
    cached |-> Null, stale |-> Null, age |-> Null,
    finished |-> FALSE, threw |-> FALSE ]

Last(seq) == seq[Len(seq)]
SetLast(seq, e) == [seq EXCEPT ![Len(seq)] = e]

Respond(rq, status) == [rq EXCEPT !.pc = "done", !.status = status, !.ops = << >>]

\* The synchronous run of one continuation: from the point reached to the
\* next await, or to the response.  The result is [rq, store].
RECURSIVE Continue(_, _, _), NextMessage(_, _, _), NextChange(_, _, _)

\* inside a handler: orderState.set calls up to the next send, or the return
Continue(rq, store, orderId) ==
  IF rq.ops = << >> THEN
    NextMessage([rq EXCEPT !.m = @ + 1,
                           !.log = SetLast(@, [Last(@) EXCEPT !.finished = TRUE])],
                store, orderId)
  ELSE IF Head(rq.ops).op = "set" THEN
    Continue([rq EXCEPT !.ops = Tail(@),
                        !.log = SetLast(@, [Last(@) EXCEPT
                                              !.wrote = Append(@, Head(rq.ops).value)])],
             MapSet(store, From(rq), Head(rq.ops).value), orderId)
  ELSE
    [rq |-> [rq EXCEPT !.pc = "send"], store |-> store]

\* processWebhookMessage: the loop over payload.messages
NextMessage(rq, store, orderId) ==
  IF rq.m > Len(CurrentChange(rq).messages) THEN
    NextChange([rq EXCEPT !.c = @ + 1], store, orderId)
  ELSE
    LET msg == CurrentMessage(rq)
        started == [rq EXCEPT !.log = Append(@, LogEntry(rq))]
        age == IF goldRate = Null THEN Null ELSE now - fetchedAt
    IN
    IF IsText(msg) THEN
      IF AwaitsGoldRate(msg.body, rq.userState) THEN
        IF CacheValid(goldRate, now) THEN
          Continue([started EXCEPT
                      !.ops = handleTextMessage(msg.body, rq.userState, goldRate),
                      !.log = SetLast(@, [Last(@) EXCEPT !.rate = goldRate,
                                                         !.fetched = "cache",
                                                         !.cached = goldRate,
                                                         !.age = age])],
                   store, orderId)
        ELSE
          [rq |-> [started EXCEPT
                     !.pc = "fetch",
                     !.log = SetLast(@, [Last(@) EXCEPT !.fetched = "pending",
                                                        !.cached = goldRate,
                                                        !.age = age])],
           store |-> store]
      ELSE
        Continue([started EXCEPT !.ops = handleTextMessage(msg.body, rq.userState, Null)],
                 store, orderId)
    ELSE IF IsList(msg) THEN
      Continue([started EXCEPT !.ops = handleListReply(msg.list_reply, rq.userState)],
               store, orderId)
    ELSE IF IsButton(msg) THEN
      Continue([started EXCEPT
                  !.ops = handleButtonReply(msg.button_reply, rq.userState, orderId)],
               store, orderId)
    ELSE
      NextMessage([rq EXCEPT !.m = @ + 1], store, orderId)

\* router.post: the loop over the changes
NextChange(rq, store, orderId) ==
  IF rq.c > Len(rq.changes) THEN
    [rq |-> Respond(rq, 200), store |-> store]
  ELSE
    LET change == CurrentChange(rq)
    IN
    IF change.field = "messages" /\ HasMessages(change) THEN
      IF MissingIds(change) THEN
        [rq |-> Respond(rq, 400), store |-> store]
      ELSE
        NextMessage([rq EXCEPT !.m = 1,
                               !.userState = GetUserState(store, change.wa_id),
                               !.engine = Append(@, rq.c)],
                    store, orderId)
    ELSE
      NextChange([rq EXCEPT !.c = @ + 1], store, orderId)

\* the history of calls to GoldAPI: a continuation that ends awaiting it has
\* just issued the request
Requested(rq) == IF rq.pc = "fetch" THEN now ELSE requestedAt

(***************************************************************************)
(* Actions                                                                 *)
(***************************************************************************)
Free(r) == req[r].pc \in {"idle", "done"}

\* Variant: the route takes up a POST only when no other is under way.
FirstFreeSerial(r) == \A q \in Requests : req[q].pc \in {"idle", "done"}

\* a POST that arrives is given the first record that is free
FirstFree(r) == Free(r) /\ \A q \in Requests : Free(q) => r <= q

\* POST /: the route handler up to its first await, or to its response
Receive(r, body, orderId) ==
  /\ FirstFree(r)
  /\ IF body.object = "whatsapp_business_account"
       THEN LET run == NextChange([NoRequest EXCEPT !.changes = body.changes, !.c = 1],
                                  orderState, orderId)
            IN  /\ req' = [req EXCEPT ![r] = run.rq]
                /\ orderState' = run.store
                /\ requestedAt' = Requested(run.rq)
       ELSE /\ req' = [req EXCEPT ![r] = Respond([NoRequest EXCEPT !.changes = body.changes],
                                                 400)]
            /\ UNCHANGED <<orderState, requestedAt>>
  /\ UNCHANGED <<goldRate, now, fetchedAt>>

\* axios.get resolves: goldRate = response.data.price; return goldRate
FetchResolve(r, price, orderId) ==
  /\ req[r].pc = "fetch"
  /\ LET rq == req[r]
         run == Continue([rq EXCEPT
                            !.pc = "run",
                            !.ops = handleTextMessage(CurrentMessage(rq).body,
                                                      rq.userState, price),
                            !.log = SetLast(@, [Last(@) EXCEPT !.rate = price,
                                                               !.fetched = "ok"])],
                         orderState, orderId)
     IN  /\ req' = [req EXCEPT ![r] = run.rq]
         /\ orderState' = run.store
         /\ requestedAt' = Requested(run.rq)
  /\ goldRate' = price
  /\ fetchedAt' = now
  /\ UNCHANGED now

\* Variant: the catch block returns the value goldRate holds.
CatchResultStale(held) == held

\* the catch block of fetchGoldRate: return null, whatever goldRate holds
CatchResult(held) == Null

\* Variant: the catch block rethrows, as the one of sendWhatsAppMessage does:
\* the handler rejects and the route answers 500.
FetchRejectThrows(r, orderId) ==
  /\ req[r].pc = "fetch"
  /\ req' = [req EXCEPT ![r] =
               Respond([req[r] EXCEPT !.log = SetLast(@, [Last(@) EXCEPT
                                                           !.fetched = "failed",
                                                           !.threw = TRUE])],
                       500)]
  /\ UNCHANGED <<orderState, goldRate, now, fetchedAt, requestedAt>>

\* axios.get rejects
FetchReject(r, orderId) ==
  /\ req[r].pc = "fetch"
  /\ LET rq == req[r]
         run == Continue([rq EXCEPT
                            !.pc = "run",
                            !.ops = handleTextMessage(CurrentMessage(rq).body,
                                                      rq.userState, CatchResult(goldRate)),
                            !.log = SetLast(@, [Last(@) EXCEPT
                                                  !.rate = CatchResult(goldRate),
                                                  !.fetched = "failed",
                                                  !.stale = goldRate])],
                         orderState, orderId)
     IN  /\ req' = [req EXCEPT ![r] = run.rq]
         /\ orderState' = run.store
         /\ requestedAt' = Requested(run.rq)
  /\ UNCHANGED <<goldRate, now, fetchedAt>>

\* axios.post resolves: sendWhatsAppMessage returns, the handler goes on
SendResolve(r, orderId) ==
  /\ req[r].pc = "send"
  /\ LET rq == req[r]
         run == Continue([rq EXCEPT
                            !.pc = "run",
                            !.ops = Tail(@),
                            !.log = SetLast(@, [Last(@) EXCEPT
                                                  !.out = Append(@, Head(rq.ops).msg)])],
                         orderState, orderId)
     IN  /\ req' = [req EXCEPT ![r] = run.rq]
         /\ orderState' = run.store
         /\ requestedAt' = Requested(run.rq)
  /\ UNCHANGED <<goldRate, now, fetchedAt>>

\* Variant: the route's catch logs the error and the request is answered 200.
SendRejectAnswers200(r) ==
  /\ req[r].pc = "send"
  /\ req' = [req EXCEPT ![r] =
               Respond([req[r] EXCEPT !.log = SetLast(@, [Last(@) EXCEPT !.threw = TRUE])],
                       200)]
  /\ UNCHANGED <<orderState, goldRate, now, fetchedAt, requestedAt>>

\* Variant: processWebhookMessage is awaited outside a try, so its rejection
\* leaves the route handler without a response.
SendRejectUnanswered(r) ==
  /\ req[r].pc = "send"
  /\ req' = [req EXCEPT ![r] =
               [req[r] EXCEPT !.pc = "rejected", !.ops = << >>,
                              !.log = SetLast(@, [Last(@) EXCEPT !.threw = TRUE])]]
  /\ UNCHANGED <<orderState, goldRate, now, fetchedAt, requestedAt>>

\* axios.post rejects: sendWhatsAppMessage rethrows, the handler and
\* processWebhookMessage reject, the route's catch answers 500
SendReject(r) ==
  /\ req[r].pc = "send"
  /\ req' = [req EXCEPT ![r] =
               Respond([req[r] EXCEPT !.log = SetLast(@, [Last(@) EXCEPT !.threw = TRUE])],
                       500)]
  /\ UNCHANGED <<orderState, goldRate, now, fetchedAt, requestedAt>>

\* time passes
Tick ==
  /\ now < MaxTicks
  /\ now' = now + 1
  /\ UNCHANGED <<orderState, goldRate, req, fetchedAt, requestedAt>>

Init ==
  /\ orderState = << >>
  /\ goldRate = Null
  /\ now = 0
  /\ req = [r \in Requests |-> NoRequest]
  /\ fetchedAt = Never
  /\ requestedAt = Never

(***************************************************************************)
(* Inputs                                                                  *)
(***************************************************************************)
Body(changes) == [object |-> "whatsapp_business_account", changes |-> changes]

\* a POST that carries one change with the given messages of one user
Post(from, messages) == Body(<<Change(from, messages)>>)

(***************************************************************************)
(* Spec: the program with two POSTs in flight together, of one user or of  *)
(* two, on the messages of an order.                                       *)
(***************************************************************************)
Messages ==
  { TextMsg(ORDER), ListMsg("browse_products"), ListMsg("necklace"), ListMsg("bangles"),
    TextMsg(<<"2">>), ButtonMsg("confirm") }

OtherUserMessages == { TextMsg(MENU) }

Bodies ==
  { Post("u1", <<msg>>) : msg \in Messages }
    \cup { Post("u2", <<msg>>) : msg \in OtherUserMessages }

Next ==
  \/ \E r \in Requests, body \in Bodies, orderId \in OrderIds : Receive(r, body, orderId)
  \/ \E r \in Requests, price \in Prices, orderId \in OrderIds : FetchResolve(r, price, orderId)
  \/ \E r \in Requests, orderId \in OrderIds : FetchReject(r, orderId)
  \/ \E r \in Requests, orderId \in OrderIds : SendResolve(r, orderId)
  \/ \E r \in Requests : SendReject(r)

Spec == Init /\ [][Next]_vars

(***************************************************************************)
(* SeqSpec: one POST at a time (each arrives after the one before it was   *)
(* answered), on every kind of message, with payloads of one message and   *)
(* payloads of two.                                                        *)
(***************************************************************************)
SeqTexts ==
  { HI, <<"H", "I">>, ORDER, MENU, <<"2">>, <<"3">>, <<"0">>, <<"2", "x">> }

SeqListIds ==
  { "view_points", "view_orders", "contact_support", "change_language", "create_order",
    "browse_products", "back_to_main", "necklace", "bangles",
    "lang_english", "lang_tamil", "lang_hindi" }

SeqButtonIds == { "confirm", "cancel", "later" }

SeqMessages ==
  {TextMsg(t) : t \in SeqTexts} \cup {ListMsg(i) : i \in SeqListIds}
    \cup {ButtonMsg(b) : b \in SeqButtonIds}

\* the messages of the payloads of two
PairMessages ==
  { ListMsg("necklace"), TextMsg(<<"2">>), ButtonMsg("confirm"), ListMsg("lang_tamil") }

SeqBodies ==
  { Post("u1", <<msg>>) : msg \in SeqMessages }
    \cup { Post("u1", <<m1, m2>>) : m1 \in PairMessages, m2 \in PairMessages }
    \cup { Post("u2", <<msg>>) : msg \in OtherUserMessages }

NoneInFlight == \A q \in Requests : Free(q)

SeqNext ==
  \/ \E r \in Requests, body \in SeqBodies, orderId \in OrderIds :
        NoneInFlight /\ Receive(r, body, orderId)
  \/ \E r \in Requests, price \in Prices, orderId \in OrderIds : FetchResolve(r, price, orderId)
  \/ \E r \in Requests, orderId \in OrderIds : FetchReject(r, orderId)
  \/ \E r \in Requests, orderId \in OrderIds : SendResolve(r, orderId)
  \/ \E r \in Requests : SendReject(r)

SeqSpec == Init /\ [][SeqNext]_vars

(***************************************************************************)
(* QuoteSpec: the gold-rate cache under calls that overlap, while time     *)
(* passes.  "hi" is the message whose handling calls fetchGoldRate in      *)
(* IDLE and in WELCOME_SENT.                                               *)
(***************************************************************************)
QuotePrices == {124400, 62200}

QuoteBodies == { Post(u, <<TextMsg(HI)>>) : u \in Users }

QuoteNext ==
  \/ \E r \in Requests, body \in QuoteBodies, orderId \in OrderIds : Receive(r, body, orderId)
  \/ \E r \in Requests, price \in QuotePrices, orderId \in OrderIds :
        FetchResolve(r, price, orderId)
  \/ \E r \in Requests, orderId \in OrderIds : FetchReject(r, orderId)
  \/ \E r \in Requests, orderId \in OrderIds : SendResolve(r, orderId)
  \/ \E r \in Requests : SendReject(r)
  \/ Tick

QuoteSpec == Init /\ [][QuoteNext]_vars

(***************************************************************************)
(* RouteSpec: the route on bodies of one change and of two, one POST at a  *)
(* time: changes with and without their ids, with and without messages,    *)
(* of the field messages and of another, and a body of another object.     *)
(***************************************************************************)
RouteChanges ==
  { Change("u1", <<TextMsg(MENU)>>),
    Change("u1", <<TextMsg(HI)>>),
    Change("u1", <<TextMsg(MENU), TextMsg(ORDER)>>),
    Change("", <<TextMsg(MENU)>>),
    [Change("u1", <<TextMsg(MENU)>>) EXCEPT !.phone_number_id = ""],
    Change("u1", << >>),
    ChangeOf("messages", "pn1", ""),
    ChangeOf("account_update", "", "") }

RouteBodies ==
  { Body(<<c1>>) : c1 \in RouteChanges }
    \cup { Body(<<c1, c2>>) : c1 \in RouteChanges, c2 \in RouteChanges }
    \cup { [object |-> "page", changes |-> <<c1>>] : c1 \in RouteChanges }

RouteNext ==
  \/ \E r \in Requests, body \in RouteBodies, orderId \in OrderIds :
        NoneInFlight /\ Receive(r, body, orderId)
  \/ \E r \in Requests, price \in Prices, orderId \in OrderIds : FetchResolve(r, price, orderId)
  \/ \E r \in Requests, orderId \in OrderIds : FetchReject(r, orderId)
  \/ \E r \in Requests, orderId \in OrderIds : SendResolve(r, orderId)
  \/ \E r \in Requests : SendReject(r)

RouteSpec == Init /\ [][RouteNext]_vars

(***************************************************************************)
(* HungSpec: the external call of the first POST (of user u1) never        *)
(* returns, while POSTs of user u2 arrive one at a time.  The event loop   *)
(* runs every continuation that is ready, so a POST of u2 that arrived is  *)
(* taken up and an external call of it that returned is continued: weak    *)
(* fairness of the arrival and of the return of the calls of u2.           *)
(***************************************************************************)
Hung  == 1
Other == 2

\* texts: the handling of each of them awaits an external call
HungBodies == { Post("u1", <<TextMsg(t)>>) : t \in {HI, ORDER} }

OtherBodies ==
  { Post("u2", <<msg>>) :
      msg \in { TextMsg(HI), TextMsg(ORDER), ListMsg("browse_products"),
                ListMsg("necklace"), TextMsg(<<"2">>), ButtonMsg("confirm") } }

Arrives(r) ==
  \E body \in (IF r = Hung THEN HungBodies ELSE OtherBodies), orderId \in OrderIds :
    Receive(r, body, orderId)

\* the external call of request r returns, with either outcome
Returns(r) ==
  \/ \E price \in Prices, orderId \in OrderIds : FetchResolve(r, price, orderId)
  \/ \E orderId \in OrderIds : FetchReject(r, orderId)
  \/ \E orderId \in OrderIds : SendResolve(r, orderId)
  \/ SendReject(r)

HungNext ==
  \/ Arrives(Hung)
  \/ Arrives(Other)
  \/ Returns(Other)

HungSpec ==
  Init /\ [][HungNext]_vars /\ WF_vars(Arrives(Other)) /\ WF_vars(Returns(Other))

(***************************************************************************)
(* AnswerSpec: two POSTs in flight together, on bodies that end in each of *)
(* the three answers, every external call returning with one outcome or    *)
(* the other: the event loop continues a request whose call has settled,   *)
(* hence weak fairness of the return of the calls of each request.         *)
(***************************************************************************)
AnswerBodies ==
  { Post("u1", <<TextMsg(HI)>>),
    Body(<<Change("u2", <<TextMsg(MENU)>>), Change("", <<TextMsg(MENU)>>)>>),
    [object |-> "page", changes |-> << >>] }

AnswerNext ==
  \/ \E r \in Requests, body \in AnswerBodies, orderId \in OrderIds :
        Receive(r, body, orderId)
  \/ \E r \in Requests : Returns(r)

AnswerSpec ==
  Init /\ [][AnswerNext]_vars /\ \A r \in Requests : WF_vars(Returns(r))

(***************************************************************************)
(* routes/webhook.ts: the verification endpoint (GET /).  A parameter the   *)
(* query string lacks reads as "undefined".  The record of a GET has the   *)
(* fields of a request and, besides, its query and the body it was         *)
(* answered with ("" for res.end()).                                       *)
(***************************************************************************)
\* getEnvConfig().verifyToken: VERIFY_TOKEN, which getEnvConfig requires to be
\* set and not empty
verifyToken == "s3cret"

Query(mode, token, challenge) == [mode |-> mode, token |-> token, challenge |-> challenge]

\* Variant: one of the two conditions is enough.
VerifiedEither(query) == query.mode = "subscribe" \/ query.token = verifyToken

\* mode === 'subscribe' && token === verifyToken
Verified(query) == query.mode = "subscribe" /\ query.token = verifyToken

Answer(query, status, sent) ==
  [f \in (DOMAIN NoRequest) \cup {"query", "sent"} |->
     CASE f = "query"  -> query
       [] f = "sent"   -> sent
       [] f = "pc"     -> "done"
       [] f = "status" -> status
       [] OTHER        -> NoRequest[f]]

IsGet(rq) == "query" \in DOMAIN rq

\* GET /: answered in the one synchronous run of the handler
Get(r, query) ==
  /\ FirstFree(r)
  /\ req' = [req EXCEPT ![r] =
               IF Verified(query) THEN Answer(query, 200, query.challenge)
               ELSE Answer(query, 403, "")]
  /\ UNCHANGED <<orderState, goldRate, now, fetchedAt, requestedAt>>

(***************************************************************************)
(* VerifySpec: verification GETs between POSTs that are handled one at a   *)
(* time, so that sessions are stored when a GET arrives.                   *)
(***************************************************************************)
Modes  == {"subscribe", "unsubscribe", "undefined"}
Tokens == {"s3cret", "S3CRET", "", "undefined"}
Challenges == {"1158201444", "undefined"}

Queries ==
  { Query(mode, token, challenge) :
      mode \in Modes, token \in Tokens, challenge \in Challenges }

VerifyBodies == { Post("u1", <<TextMsg(t)>>) : t \in {HI, MENU} }

VerifyNext ==
  \/ \E r \in Requests, query \in Queries : NoneInFlight /\ Get(r, query)
  \/ \E r \in Requests, body \in VerifyBodies, orderId \in OrderIds :
        NoneInFlight /\ Receive(r, body, orderId)
  \/ \E r \in Requests : Returns(r)

VerifySpec == Init /\ [][VerifyNext]_vars

(***************************************************************************)
(* Properties                                                              *)
(***************************************************************************)
\* every handling of a message recorded in the requests
Handled == UNION { { req[r].log[k] : k \in DOMAIN req[r].log } : r \in Requests }

\* the handlings of the requests that were answered
Answered ==
  UNION { { req[r].log[k] : k \in DOMAIN req[r].log } :
            r \in { q \in Requests : req[q].pc = "done" } }

\* what the handler of a recorded message does, given the rate it got
HandlerOps(e) ==
  IF IsText(e.message) THEN handleTextMessage(e.message.body, e.userState, e.rate)
  ELSE IF IsList(e.message) THEN handleListReply(e.message.list_reply, e.userState)
  ELSE handleButtonReply(e.message.button_reply, e.userState,
                         CHOOSE orderId \in OrderIds : TRUE)

SetValues(ops) == { ops[i].value : i \in { j \in DOMAIN ops : ops[j].op = "set" } }

\* The transition table of the conversation: the events a state has a
\* transition for.
Recognized(step, msg) ==
  \/ /\ step \in {IDLE, WELCOME_SENT, CREATE_ORDER, MAIN_MENU}
     /\ IsText(msg) /\ ToLowerCase(msg.body) \in {HI, ORDER, MENU}
  \/ /\ step = MAIN_MENU /\ IsList(msg)
     /\ msg.list_reply \in {"view_points", "view_orders", "contact_support",
                            "change_language", "create_order"}
  \/ /\ step = CREATE_ORDER /\ IsList(msg)
     /\ msg.list_reply \in {"browse_products", "back_to_main"}
  \/ /\ step = SELECT_PRODUCT /\ IsList(msg)
     /\ msg.list_reply \in {"necklace", "bangles", "earings"}
  \/ /\ step = ENTER_QUANTITY /\ IsText(msg) /\ IsNumeric(msg.body)
  \/ /\ step = CONFIRM_ORDER /\ IsButton(msg)
     /\ msg.button_reply \in {"confirm", "cancel"}
  \/ /\ step = CHANGE_LANGUAGE /\ IsList(msg)
     /\ msg.list_reply \in {"lang_english", "lang_kannada", "lang_tamil", "lang_telugu"}

\* C1: every event handled to its end has at least one message sent for it,
\* and an event that matches no transition of the state it is handled in
\* leaves the state as it was.
C1_UnmatchedEventIsReprompted ==
  \A e \in Handled :
    e.finished =>
      /\ Len(e.out) >= 1
      /\ ( ~Recognized(e.userState.step, e.message)
             => \A i \in DOMAIN e.wrote : e.wrote[i].step = e.userState.step )

\* C2: once a POST with confirm or cancel for a session in CONFIRM_ORDER is
\* answered, the session is in MAIN_MENU with no product and no quantity and
\* the language it had.
C2_ConfirmOrderResolvesToMainMenu ==
  \A e \in Answered :
    ( /\ e.userState.step = CONFIRM_ORDER
      /\ IsButton(e.message)
      /\ e.message.button_reply \in {"confirm", "cancel"} )
      => /\ e.from \in DOMAIN orderState
         /\ orderState[e.from] = Session(MAIN_MENU, LanguageOf(e.userState))

\* C3: a stored session has a product only in ENTER_QUANTITY and
\* CONFIRM_ORDER and a quantity only in CONFIRM_ORDER, and so has every value
\* a handler writes: a write of any other state stores neither.
OrderFieldsFit(s) ==
  /\ HasProduct(s)  => s.step \in {ENTER_QUANTITY, CONFIRM_ORDER}
  /\ HasQuantity(s) => s.step = CONFIRM_ORDER

C3_ProductAndQuantityOnlyInOrderStates ==
  /\ \A u \in DOMAIN orderState : OrderFieldsFit(orderState[u])
  /\ \A e \in Handled : \A i \in DOMAIN e.wrote :
       /\ OrderFieldsFit(e.wrote[i])
       /\ e.wrote[i].step \in {MAIN_MENU, CREATE_ORDER, SELECT_PRODUCT, WELCOME_SENT,
                               CHANGE_LANGUAGE}
            => ~HasProduct(e.wrote[i]) /\ ~HasQuantity(e.wrote[i])

\* C3 witness: a session that held a product and a quantity in CONFIRM_ORDER
\* was written back to MAIN_MENU without them.
C3_Witness ==
  \E e \in Answered :
    /\ e.userState.step = CONFIRM_ORDER
    /\ HasProduct(e.userState) /\ HasQuantity(e.userState)
    /\ e.wrote # << >>
    /\ e.from \in DOMAIN orderState
    /\ orderState[e.from].step = MAIN_MENU
    /\ ~HasProduct(orderState[e.from]) /\ ~HasQuantity(orderState[e.from])

\* C9: when the dispatch of a message fails in the handling of an event, the
\* stored session is the one the handler of that event writes.
C9_SessionWrittenDespiteDispatchFailure ==
  \A e \in Answered :
    e.threw =>
      \A v \in SetValues(HandlerOps(e)) :
        e.from \in DOMAIN orderState /\ orderState[e.from] = v

\* an accepted language selection: a list reply with one of the four language
\* ids, handled in CHANGE_LANGUAGE, whose write was made
IsLanguageSelection(e) ==
  /\ e.userState.step = CHANGE_LANGUAGE
  /\ IsList(e.message)
  /\ NewLanguage(e.message.list_reply) # "none"
  /\ e.wrote # << >>

\* the language selections of user u accepted in the step
AcceptedInStep(u) ==
  { e \in Handled' : e.from = u /\ IsLanguageSelection(e) } \ Handled

\* C4: with one POST handled at a time, the language of a stored session
\* changes only in a step in which a language selection of that user is
\* accepted, and then it is the language selected; every other step (of an
\* order, of the menus, a failed dispatch) keeps it.
C4_LanguagePersists ==
  [][ \A u \in DOMAIN orderState :
        /\ u \in DOMAIN orderState'
        /\ IF AcceptedInStep(u) = {}
             THEN orderState'[u].language = orderState[u].language
             ELSE \E e \in AcceptedInStep(u) :
                    orderState'[u].language = NewLanguage(e.message.list_reply)
    ]_vars

\* C4 witness: tamil was selected, and an order made after it was confirmed
\* with the session still in tamil.
C4_Witness ==
  \E e \in Answered :
    /\ e.userState.step = CONFIRM_ORDER
    /\ e.userState.language = "tamil"
    /\ IsButton(e.message) /\ e.message.button_reply = "confirm"
    /\ e.finished
    /\ orderState[e.from] = Session(MAIN_MENU, "tamil")

\* C5 as claimed: a request is sent to GoldAPI only when none was sent in the
\* hour before it.
C5_OneRequestPerWindow ==
  [][ \A r \in Requests :
        (req'[r].pc = "fetch" /\ req'[r] # req[r])
          => \/ requestedAt = Never
             \/ (now - requestedAt) * TickMs >= CACHE_DURATION
    ]_vars

\* C5 amended: a call of fetchGoldRate that starts while goldRate holds a
\* value fetched less than an hour before sends no request and returns that
\* value; a call that starts while goldRate holds none sends a request,
\* whatever calls are under way or have failed.
C5_NoRequestWhileValueHeld ==
  \A e \in Handled :
    /\ (e.fetched # "no" /\ e.cached # Null /\ e.age * TickMs < CACHE_DURATION)
         => e.fetched = "cache" /\ e.rate = e.cached
    /\ (e.fetched # "no" /\ e.cached = Null)
         => e.fetched \in {"pending", "ok", "failed"}

\* C5 witness: a second call, made within the hour of a fetch that succeeded,
\* was served from the cache.
C5_Witness ==
  \E e \in Handled :
    /\ e.fetched = "cache" /\ e.rate \in QuotePrices
    /\ e.age = 1 /\ e.age * TickMs < CACHE_DURATION
    /\ requestedAt = fetchedAt

\* C6: a value returned from the cache was fetched at most one hour before.
C6_CachedValueWithinTtl ==
  \A e \in Handled :
    e.fetched = "cache" => e.age * TickMs <= CACHE_DURATION

Writing(rq) == { k \in DOMAIN rq.log : rq.log[k].wrote # << >> }

LastWriting(rq) == rq.log[CHOOSE k \in Writing(rq) : \A j \in Writing(rq) : j <= k]

C11_OtherUsersAreHandled ==
  ( req[Hung].pc \in {"fetch", "send"} /\ req[Other].pc # "done" )
    ~> ( /\ req[Hung].pc \in {"fetch", "send"}
         /\ req[Other].pc = "done"
         /\ \E e \in Answered : e.from = "u2" )

\* C11 witness: with the handling of u1's event still suspended, the session
\* of u2 went through an order up to CONFIRM_ORDER.
C11_Witness ==
  /\ req[Hung].pc \in {"fetch", "send"}
  /\ From(req[Hung]) = "u1"
  /\ "u1" \notin DOMAIN orderState
  /\ "u2" \in DOMAIN orderState
  /\ orderState["u2"].step = CONFIRM_ORDER
  /\ req[Other].pc = "done" /\ req[Other].status = 200

\* the eight states the conversation is specified over, by name
EnumeratedStates ==
  { "IDLE", "WELCOME_SENT", "MAIN_MENU", "CREATE_ORDER", "SELECT_PRODUCT",
    "ENTER_QUANTITY", "CONFIRM_ORDER", "CHANGE_LANGUAGE" }

\* a POST of one message, handled to its end on the session given
Delivered(e, session, msg) ==
  /\ e.finished
  /\ e.userState = session
  /\ e.message = msg

\* C12: for a new user, "order", browse_products, necklace, "3" and confirm,
\* each in a POST of its own and handled in order, take the session through
\* CREATE_ORDER, SELECT_PRODUCT, ENTER_QUANTITY with necklace, CONFIRM_ORDER
\* with quantity 3 and MAIN_MENU with neither, and send the order sub-menu,
\* the product list, the quantity prompt, the confirmation with its two
\* buttons and the text with the order id.
C12_OrderScenario ==
  \A e \in Answered :
    LET s0 == [step |-> "IDLE", language |-> "english"]
        s1 == [step |-> "CREATE_ORDER", language |-> "english"]
        s2 == [step |-> "SELECT_PRODUCT", language |-> "english"]
        s3 == [step |-> "ENTER_QUANTITY", product |-> "necklace", language |-> "english"]
        s4 == [step |-> "CONFIRM_ORDER", product |-> "necklace", quantity |-> 3,
               language |-> "english"]
        s5 == [step |-> "MAIN_MENU", language |-> "english"]
    IN  /\ Delivered(e, s0, TextMsg(ORDER))
          => /\ e.wrote = <<s1>>
             /\ e.out = <<getCreateOrderMenu("english")>>
        /\ Delivered(e, s1, ListMsg("browse_products"))
          => /\ e.wrote = <<s2>>
             /\ e.out = <<productList>>
        /\ Delivered(e, s2, ListMsg("necklace"))
          => /\ e.wrote = <<s3>>
             /\ Len(e.out) = 1 /\ e.out[1].type = "text"
        /\ Delivered(e, s3, TextMsg(<<"3">>))
          => /\ e.wrote = <<s4>>
             /\ Len(e.out) = 1 /\ e.out[1].kind = "button"
             /\ e.out[1].buttons = <<"confirm", "cancel">>
        /\ Delivered(e, s4, ButtonMsg("confirm"))
          => /\ e.wrote = <<s5>>
             /\ Len(e.out) >= 1 /\ e.out[1].type = "text"
             /\ e.out[1].orderId \in OrderIds

\* C13: the step of every stored session is one of the eight enumerated
\* states, and "order" writes CREATE_ORDER.
C13_StepIsAnEnumeratedState ==
  /\ \A u \in DOMAIN orderState : orderState[u].step \in EnumeratedStates
  /\ \A e \in Handled :
       (e.userState.step = IDLE /\ IsText(e.message)
          /\ ToLowerCase(e.message.body) = ORDER /\ e.wrote # << >>)
         => e.wrote[1].step = "CREATE_ORDER"

\* C14: the quantity of a stored session is an integer of at least 1.
C14_QuantityIsPositive ==
  \A u \in DOMAIN orderState :
    HasQuantity(orderState[u]) => orderState[u].quantity >= 1

\* the confirmations handed to the Cloud API in the handling e
Confirmations(e) ==
  { e.out[i] : i \in { j \in DOMAIN e.out : e.out[j].type = "interactive"
                                              /\ e.out[j].menu = "confirmation" } }

\* C15: with the quote unavailable, the total a confirmation shows is a
\* placeholder, the one shown for the rate, and not a number, NaN, 0 or the
\* text of null.
C15_TotalShowsPlaceholder ==
  \A e \in Handled : \A msg \in Confirmations(e) :
    e.rate = Null =>
      /\ msg.totalShown.kind = "literal"
      /\ msg.totalShown = msg.rateShown
      /\ msg.totalShown.text \notin {"null", "NaN", "0", "undefined"}

\* C16: with a quote, the total a confirmation shows is the quantity times
\* the weight the catalog gives the product of the session times the price
\* per gram the message shows; 2 of weight 50 at 4000.00 are 400000.00.
C16_TotalIsQuantityWeightPrice ==
  \A e \in Handled : \A msg \in Confirmations(e) :
    Truthy(e.rate) =>
      /\ msg.rateShown.kind = "number" /\ msg.totalShown.kind = "number"
      /\ productWeights(msg.product) # Null
      /\ msg.totalShown.hundredths =
           msg.quantity * productWeights(msg.product) * msg.rateShown.hundredths
      /\ (msg.quantity = 2 /\ productWeights(msg.product) = 50
            /\ msg.rateShown.hundredths = 400000)
           => msg.totalShown.hundredths = 40000000

\* the changes of a request that carry messages and lack an id
LackingIds(rq) ==
  { k \in DOMAIN rq.changes :
      /\ rq.changes[k].field = "messages" /\ HasMessages(rq.changes[k])
      /\ rq.changes[k].phone_number_id = "" \/ rq.changes[k].wa_id = "" }

PassedToEngine(rq) == { rq.engine[i] : i \in DOMAIN rq.engine }

\* C17 as claimed: a request with a change that lacks the phone_number_id or
\* the wa_id is answered 400, and the change is not passed to
\* processWebhookMessage.
C17_ChangeLackingIdsIsAnswered400 ==
  \A r \in Requests :
    LET lacking == { k \in DOMAIN req[r].changes :
                       \/ req[r].changes[k].phone_number_id = ""
                       \/ req[r].changes[k].wa_id = "" }
    IN  (req[r].pc = "done" /\ lacking # {})
          => /\ req[r].status = 400
             /\ lacking \cap PassedToEngine(req[r]) = {}

\* C17 amended: a change of the field messages that carries messages and
\* lacks the phone_number_id or the wa_id is never passed to
\* processWebhookMessage, nor is any change after it; the request is answered
\* 400 at the first such change, unless a dispatch failed in a change before
\* it (500) or the body is not of a whatsapp_business_account (400, no
\* change looked at).
C17_MessagesLackingIdsAreRefused ==
  \A r \in Requests :
    LET rq == req[r]
    IN  \A k \in LackingIds(rq) :
          /\ \A j \in PassedToEngine(rq) : j < k
          /\ rq.pc = "done" =>
               \/ rq.status = 400 /\ rq.c \in LackingIds(rq) /\ rq.c <= k
               \/ rq.status = 400 /\ rq.c = 0 /\ rq.engine = << >>
               \/ rq.status = 500 /\ rq.c < k /\ \E i \in DOMAIN rq.log : rq.log[i].threw

\* C17 witness: the first change of a request was handled, its second
\* lacked the wa_id, and the request was answered 400.
C17_Witness ==
  \E r \in Requests :
    /\ req[r].pc = "done" /\ req[r].status = 400
    /\ Len(req[r].changes) = 2
    /\ req[r].engine = <<1>>
    /\ LackingIds(req[r]) = {2}
    /\ req[r].changes[2].wa_id = ""
    /\ req[r].changes[2].phone_number_id # ""

\* C18: a request in which the dispatch of a message failed is answered 500,
\* and the handling in which it failed is the last of the request: the
\* message and the change it stopped at are those of the failure, and no
\* change after it was passed to processWebhookMessage.
C18_DispatchFailureFailsTheRequest ==
  \A r \in Requests : \A i \in DOMAIN req[r].log :
    LET rq == req[r]
    IN  rq.log[i].threw =>
          /\ rq.pc = "done" /\ rq.status = 500
          /\ i = Len(rq.log)
          /\ rq.c \in DOMAIN rq.changes /\ Last(rq.engine) = rq.c
          /\ rq.m \in DOMAIN CurrentChange(rq).messages
          /\ CurrentMessage(rq) = rq.log[i].message
          /\ rq.log[i].finished = FALSE

\* C18 witness: the dispatch failed in the first of the two messages of the
\* first of two changes; the second message and the second change, which
\* has its ids and a message, were not handled.
C18_Witness ==
  \E r \in Requests :
    /\ req[r].pc = "done" /\ req[r].status = 500
    /\ Len(req[r].changes) = 2
    /\ HasMessages(req[r].changes[1])
    /\ Len(req[r].changes[1].messages) = 2
    /\ req[r].changes[2] = Change("u1", <<TextMsg(MENU)>>)
    /\ Len(req[r].log) = 1 /\ req[r].log[1].threw
    /\ req[r].engine = <<1>>

\* languages the menus are asked for: the four, two of them in another
\* case, and names outside them
LanguageInputs == Languages \cup {"Tamil", "ENGLISH", "hindi", "constructor", "__proto__"}

\* C19: whatever language the handling of an event builds them for, the
\* session's or any other, the main menu has the rows view_points,
\* view_orders, contact_support, change_language, create_order and the order
\* sub-menu the rows browse_products, back_to_main, in this order, and for a
\* language outside the four both are the english menus.
C19_RowIdsAreStable ==
  \A e \in Handled : \A l \in LanguageInputs \cup {LanguageOf(e.userState)} :
    LET main  == getMainMenu(l)
        order == getCreateOrderMenu(l)
    IN  /\ "rows" \in DOMAIN main
        /\ main.rows = <<"view_points", "view_orders", "contact_support",
                         "change_language", "create_order">>
        /\ order.rows = <<"browse_products", "back_to_main">>
        /\ LowerCaseName(l) \notin Languages
             => /\ main = getMainMenu("english")
                /\ order = getCreateOrderMenu("english")

\* C20: orderState is empty at the start; a user gets a session only in a
\* step in which a handling of an event of that user writes it; and a POST
\* whose user has no session is handled on { step: IDLE, language: english },
\* whatever its message.
C20_FirstEventStartsFromIdle ==
  /\ orderState = << >>
  /\ [][ /\ \A u \in (DOMAIN orderState') \ (DOMAIN orderState) :
              \E e \in Handled' : e.from = u /\ e.wrote # << >>
         /\ \A r \in Requests :
              ( /\ Free(r) /\ req'[r] # req[r]
                /\ req'[r].log # << >>
                /\ req'[r].log[1].from \notin DOMAIN orderState )
                => req'[r].log[1].userState = [step |-> "IDLE", language |-> "english"]
       ]_vars

\* C20 witness: the first event of u1 was a button reply; it was handled on
\* the IDLE session and u1 has no session yet.
C20_Witness ==
  \E r \in Requests :
    /\ req[r].pc = "done" /\ Len(req[r].log) = 1
    /\ req[r].log[1].from = "u1"
    /\ IsButton(req[r].log[1].message)
    /\ req[r].log[1].userState = [step |-> "IDLE", language |-> "english"]
    /\ req[r].log[1].finished
    /\ "u1" \notin DOMAIN orderState

\* the longest sequence of events looked for from a session to MAIN_MENU
MaxPath == 3

\* events a user can send on the way to the main menu
HomewardEvents ==
  { TextMsg(MENU), ListMsg("necklace"), TextMsg(<<"2">>), ButtonMsg("confirm"),
    ListMsg("lang_english") }

\* the session a user has after one event is handled from the session given,
\* every dispatch succeeding
After(session, msg) ==
  LET e == [message |-> msg, userState |-> session, rate |-> Null]
      written == SetValues(HandlerOps(e))
  IN  IF written = {} THEN session ELSE CHOOSE v \in written : TRUE

RECURSIVE ReachesMainMenu(_, _)
ReachesMainMenu(session, n) ==
  \/ session.step = MAIN_MENU
  \/ n > 0 /\ \E msg \in HomewardEvents : ReachesMainMenu(After(session, msg), n - 1)

\* C21: no session is terminal: from every session that is stored, from every
\* session a handler is given, and from the session of a user who has none,
\* there is a sequence of at most MaxPath events whose handling brings the
\* session to MAIN_MENU.
C21_NoSessionIsTerminal ==
  /\ \A u \in Users : ReachesMainMenu(GetUserState(orderState, u), MaxPath)
  /\ \A e \in Handled : ReachesMainMenu(e.userState, MaxPath)

\* C21 witness: a session stored in SELECT_PRODUCT, three events away from
\* MAIN_MENU (a product, a quantity, confirm) and no nearer.
C21_Witness ==
  \E u \in DOMAIN orderState :
    /\ orderState[u].step = SELECT_PRODUCT
    /\ ReachesMainMenu(orderState[u], 3)
    /\ ~ReachesMainMenu(orderState[u], 2)

\* C22: for every state-changing transition the store is updated before the
\* messages of the transition are handed to the dispatcher: whenever a message
\* of a handling whose handler writes the session is awaiting its dispatch,
\* the write has been made.
C22_SessionWrittenBeforeDispatch ==
  \A r \in Requests :
    req[r].pc = "send" =>
      LET e == Last(req[r].log)
      IN  SetValues(HandlerOps(e)) # {} => e.wrote # << >>

\* the session a handling that ran to its end leaves its user with: the one
\* it wrote or, with no write, the one it was given
LeftBy(e) == IF e.wrote = << >> THEN e.userState ELSE Last(e.wrote)

\* C23: a text handled to its end in IDLE or in WELCOME_SENT leaves the
\* session in WELCOME_SENT when it is "hi" in any letter case, in
\* CREATE_ORDER when it is "order", in MAIN_MENU when it is "menu"; any other
\* text leaves the session as it was and one help text is sent; the language
\* of the session is kept in each case.
C23_TextInIdleAndWelcomeSent ==
  \A e \in Handled :
    (e.finished /\ IsText(e.message) /\ e.userState.step \in {"IDLE", "WELCOME_SENT"})
      => LET text == ToLowerCase(e.message.body)
         IN  /\ LeftBy(e).language = LanguageOf(e.userState)
             /\ text = HI    => LeftBy(e).step = "WELCOME_SENT"
             /\ text = ORDER => LeftBy(e).step = "CREATE_ORDER"
             /\ text = MENU  => LeftBy(e).step = "MAIN_MENU"
             /\ text \notin {HI, ORDER, MENU}
                  => /\ e.wrote = << >>
                     /\ Len(e.out) = 1 /\ e.out[1].type = "text"
                     /\ e.out[1].body \in {"help", "ready_to_shop"}

\* a list selection handled to its end in the state named
Selected(e, step, id) ==
  /\ e.finished
  /\ IsList(e.message) /\ e.message.list_reply = id
  /\ e.userState.step = step

\* C24: a list selection handled to its end leads from MAIN_MENU to
\* CREATE_ORDER on create_order and to CHANGE_LANGUAGE on change_language,
\* from CREATE_ORDER to SELECT_PRODUCT on browse_products and to MAIN_MENU on
\* back_to_main; the one message sent is the menu of the target state, and
\* the session keeps its language.
C24_MenuNavigation ==
  \A e \in Handled :
    LET language == LanguageOf(e.userState)
    IN  /\ Selected(e, "MAIN_MENU", "create_order")
          => /\ LeftBy(e) = Session("CREATE_ORDER", language)
             /\ e.out = <<getCreateOrderMenu(language)>>
        /\ Selected(e, "MAIN_MENU", "change_language")
          => /\ LeftBy(e) = Session("CHANGE_LANGUAGE", language)
             /\ e.out = <<getLanguageMenu>>
        /\ Selected(e, "CREATE_ORDER", "browse_products")
          => /\ LeftBy(e) = Session("SELECT_PRODUCT", language)
             /\ e.out = <<productList>>
        /\ Selected(e, "CREATE_ORDER", "back_to_main")
          => /\ LeftBy(e) = Session("MAIN_MENU", language)
             /\ e.out = <<getMainMenu(language)>>

\* the informational text of the three MAIN_MENU rows that stay in MAIN_MENU
InfoText(id) ==
  CASE id = "view_points"     -> Text("loyalty_points")
    [] id = "view_orders"     -> Text("no_recent_orders")
    [] id = "contact_support" -> Text("contact_us")

\* C25: view_points, view_orders and contact_support, handled to their end in
\* MAIN_MENU, each send exactly two messages, the informational text and
\* then the main menu in the language of the session, and leave the session
\* in MAIN_MENU with its language: that session is the one stored when the
\* handling has ended.
C25_InfoRowsStayInMainMenu ==
  \A e \in Handled :
    \A id \in {"view_points", "view_orders", "contact_support"} :
      Selected(e, MAIN_MENU, id)
        => /\ e.out = << InfoText(id), getMainMenu(LanguageOf(e.userState)) >>
           /\ LeftBy(e).step = MAIN_MENU
           /\ LeftBy(e).language = LanguageOf(e.userState)
           /\ e.from \in DOMAIN orderState
           /\ orderState[e.from] = Session(MAIN_MENU, LanguageOf(e.userState))

\* C25 witness: view_points was handled to its end in a session in MAIN_MENU
\* whose language is tamil, and the session is in MAIN_MENU.
C25_Witness ==
  \E e \in Answered :
    /\ Selected(e, MAIN_MENU, "view_points")
    /\ e.userState.language = "tamil"
    /\ Len(e.out) = 2
    /\ orderState[e.from] = Session(MAIN_MENU, "tamil")

LanguageIds == {"lang_english", "lang_kannada", "lang_tamil", "lang_telugu"}

\* C26: a list selection handled in CHANGE_LANGUAGE whose id is none of the
\* four language ids writes no session, so the state stays CHANGE_LANGUAGE
\* and the language stays the session's: the session stored after the
\* handling of such a POST is the one it was handled on; an error text and
\* then the language picker are sent.
C26_InvalidLanguageIsRefused ==
  \A r \in Requests : \A k \in DOMAIN req[r].log :
    LET e == req[r].log[k]
    IN  (e.userState.step = CHANGE_LANGUAGE /\ IsList(e.message)
           /\ e.message.list_reply \notin LanguageIds)
          => /\ e.wrote = << >>
             /\ e.finished
                  => e.out = << Text("invalid_language"), getLanguageMenu >>
             /\ Len(req[r].log) = 1
                  => /\ e.from \in DOMAIN orderState
                     /\ orderState[e.from] = e.userState

\* C26 witness: lang_hindi was handled to its end in a session in
\* CHANGE_LANGUAGE whose language is tamil, and the session stored is still
\* that one.
C26_Witness ==
  \E e \in Answered :
    /\ Selected(e, CHANGE_LANGUAGE, "lang_hindi")
    /\ e.userState.language = "tamil"
    /\ Len(e.out) = 2
    /\ orderState[e.from] = Session(CHANGE_LANGUAGE, "tamil")

\* the one text sent for a text that the state has no transition for
Reprompt(step) ==
  CASE step = SELECT_PRODUCT  -> Text("select_a_product")
    [] step = CONFIRM_ORDER   -> Text("use_confirm_or_cancel")
    [] step = CHANGE_LANGUAGE -> Text("select_a_language")
    [] step = ENTER_QUANTITY  -> Text("enter_valid_number")

\* a text handled in SELECT_PRODUCT, CONFIRM_ORDER or CHANGE_LANGUAGE, or a
\* text with a character that is no digit handled in ENTER_QUANTITY
TextWithoutTransition(e) ==
  /\ IsText(e.message)
  /\ \/ e.userState.step \in {SELECT_PRODUCT, CONFIRM_ORDER, CHANGE_LANGUAGE}
     \/ /\ e.userState.step = ENTER_QUANTITY
        /\ \E k \in DOMAIN e.message.body : ~IsDigit(e.message.body[k])

\* C27: a text handled in SELECT_PRODUCT, CONFIRM_ORDER or CHANGE_LANGUAGE,
\* "hi", "order" and "menu" among them, and a non-numeric text handled in
\* ENTER_QUANTITY, writes no session and has one reprompt text sent: the
\* session stored after such a POST is the one it was handled on, with its
\* state, language, product and quantity.
C27_TextWithoutTransitionKeepsSession ==
  \A r \in Requests : \A k \in DOMAIN req[r].log :
    LET e == req[r].log[k]
    IN  TextWithoutTransition(e)
          => /\ e.wrote = << >>
             /\ e.finished => e.out = << Reprompt(e.userState.step) >>
             /\ Len(req[r].log) = 1
                  => /\ e.from \in DOMAIN orderState
                     /\ orderState[e.from] = e.userState

\* C27 witness: "menu" was handled to its end in a session in CONFIRM_ORDER
\* with a product and a quantity, and the session stored is still that one.
C27_Witness ==
  \E e \in Answered :
    /\ e.finished
    /\ e.userState.step = CONFIRM_ORDER
    /\ HasProduct(e.userState) /\ HasQuantity(e.userState)
    /\ e.message = TextMsg(MENU)
    /\ e.out = << Text("use_confirm_or_cancel") >>
    /\ orderState[e.from] = e.userState

\* C28: with one POST handled at a time, each message of a payload after the
\* first is handled on the session left by the message before it in the
\* payload, as it would be had it come in a POST of its own.
C28_MessagesOfAPayloadChain ==
  \A r \in Requests : \A k \in DOMAIN req[r].log :
    (k > 1 /\ req[r].log[k].from = req[r].log[k - 1].from)
      => req[r].log[k].userState = LeftBy(req[r].log[k - 1])

\* the ids of the rows of the product list
ProductIds == { productList.rows[k] : k \in DOMAIN productList.rows }

\* C29: the product of a stored session is the id of a row of the product
\* list, and a list selection handled in SELECT_PRODUCT with any other id
\* writes no session in ENTER_QUANTITY.
C29_ProductIsInTheCatalog ==
  /\ \A u \in DOMAIN orderState :
       HasProduct(orderState[u]) => orderState[u].product \in ProductIds
  /\ \A e \in Handled :
       (e.userState.step = SELECT_PRODUCT /\ IsList(e.message)
          /\ e.message.list_reply \notin ProductIds)
         => \A i \in DOMAIN e.wrote : e.wrote[i].step # ENTER_QUANTITY

\* the "order confirmed" messages, each with an order id, sent in the handling e
OrderConfirmed(e) == { i \in DOMAIN e.out : "orderId" \in DOMAIN e.out[i] }

\* C30: with one POST handled at a time, the messages of one payload are
\* handled within one entry of the session into CONFIRM_ORDER, so at most
\* one handling of a payload has an "order confirmed" message sent, and it
\* has one, however many confirm events the payload carries.
C30_OneConfirmationPerEntry ==
  \A r \in Requests :
    /\ \A k \in DOMAIN req[r].log : Cardinality(OrderConfirmed(req[r].log[k])) <= 1
    /\ Cardinality({ k \in DOMAIN req[r].log : OrderConfirmed(req[r].log[k]) # {} }) <= 1

\* the handling e had the quantity prompt, or a confirmation with its
\* buttons, accepted by the Cloud API
PromptDispatched(e) ==
  \E j \in DOMAIN e.out :
    "body" \in DOMAIN e.out[j] /\ e.out[j].body = "enter_quantity"
ConfirmationDispatched(e) ==
  \E j \in DOMAIN e.out :
    "buttons" \in DOMAIN e.out[j] /\ e.out[j].buttons = <<"confirm", "cancel">>

\* C31: when a POST has been answered, a session it wrote in ENTER_QUANTITY
\* had its quantity prompt dispatched and a session it wrote in
\* CONFIRM_ORDER had its confirmation with the two buttons dispatched: a
\* send that failed left no session waiting for an answer to a prompt that
\* was not delivered.
C31_WaitingSessionWasPrompted ==
  \A e \in Answered : \A i \in DOMAIN e.wrote :
    /\ e.wrote[i].step = ENTER_QUANTITY => PromptDispatched(e)
    /\ e.wrote[i].step = CONFIRM_ORDER => ConfirmationDispatched(e)

\* what orderState holds for a user
Stored(u) ==
  IF u \in DOMAIN orderState THEN [present |-> TRUE, session |-> orderState[u]]
  ELSE [present |-> FALSE]

\* the users whose events the request has written a session for
WrittenFor(rq) == { rq.log[k].from : k \in Writing(rq) }

\* C32: under every interleaving of the requests, a step creates, changes
\* or removes the stored session of a user only if the request that takes
\* the step is handling an event of that user and wrote for it: the session
\* of every other user is as it was, and no session is ever removed.
C32_OtherUsersSessionsUntouched ==
  [][ \A u \in Users :
        /\ u \in DOMAIN orderState => u \in DOMAIN orderState'
        /\ Stored(u)' # Stored(u)
             => \E r \in Requests :
                  /\ req'[r] # req[r]
                  /\ u \in WrittenFor(req'[r])
                  /\ \A q \in Requests \ {r} : req'[q] = req[q]
    ]_vars

\* C32 witness: a request of u1 and a request of u2 are under way together,
\* both users have a session, the request of u1 has written, and the two
\* sessions differ.
C32_Witness ==
  \E r1, r2 \in Requests :
    /\ req[r1].pc = "send" /\ req[r2].pc = "send"
    /\ Last(req[r1].log).from = "u1" /\ Last(req[r2].log).from = "u2"
    /\ Last(req[r1].log).wrote # << >>
    /\ {"u1", "u2"} \subseteq DOMAIN orderState
    /\ orderState["u1"] # orderState["u2"]

\* C33: a stored session is never removed and never has the step IDLE: no
\* step of the program takes a user out of orderState, and no session stored
\* after a step, nor any session a handling wrote, is in IDLE.
C33_StoredSessionNeverIdle ==
  [][ /\ \A u \in DOMAIN orderState : u \in DOMAIN orderState'
      /\ \A u \in DOMAIN orderState' : orderState'[u].step # IDLE
      /\ \A e \in Handled' : \A i \in DOMAIN e.wrote : e.wrote[i].step # IDLE
    ]_vars

\* C33 witness: an order was cancelled in CONFIRM_ORDER, the handling wrote,
\* and the session of the user is stored in MAIN_MENU.
C33_Witness ==
  \E e \in Answered :
    /\ e.userState.step = CONFIRM_ORDER
    /\ e.message = ButtonMsg("cancel")
    /\ e.wrote # << >>
    /\ e.from \in DOMAIN orderState
    /\ orderState[e.from].step = MAIN_MENU

\* C34: a POST answered 400 at a change that lacks its routing ids has
\* written no session and has had no message sent, wherever in the payload
\* that change is.
C34_RefusedPostHasNoEffect ==
  \A r \in Requests :
    (req[r].pc = "done" /\ req[r].status = 400 /\ req[r].c \in LackingIds(req[r]))
      => \A k \in DOMAIN req[r].log :
           req[r].log[k].wrote = << >> /\ req[r].log[k].out = << >>

C36_VerificationGet ==
  [][ \A r \in Requests :
        (req'[r] # req[r] /\ IsGet(req'[r]))
          => LET rq == req'[r]
                 matches == rq.query.mode = "subscribe" /\ rq.query.token = "s3cret"
             IN  /\ rq.pc = "done"
                 /\ matches => rq.status = 200 /\ rq.sent = rq.query.challenge
                 /\ ~matches => rq.status = 403 /\ rq.sent = ""
                 /\ orderState' = orderState
    ]_vars

\* C36 witness: a GET with mode subscribe and the configured token was
\* answered 200 with its challenge while a session of u1 was stored.
C36_Witness ==
  \E r \in Requests :
    /\ IsGet(req[r])
    /\ req[r].status = 200
    /\ req[r].sent = "1158201444"
    /\ "u1" \in DOMAIN orderState
    /\ orderState["u1"].step = MAIN_MENU

====
